---- MODULE Spec2Model ----
(***************************************************************************)
(* A model of adb-photo-sync: one run of PhotoSyncManager.run, which scans *)
(* the source tree (MediaFileProcessor.calculate_metadata, converting HEIC *)
(* files on the way), asks for confirmation, builds an ADBDeviceManager,   *)
(* selects a device and hands the candidate list to                        *)
(* ADBDeviceManager.push_files: per file up to _max_retries attempts of    *)
(* "mkdir -p" + "push", then batched media-scan broadcasts, then the write *)
(* of last_sync_time.txt.  Every adb command is one step whose outcome the *)
(* device bridge chooses.                                                  *)
(***************************************************************************)
EXTENDS Integers, Sequences, FiniteSets, TLC

(* ------------------------------ bounds -------------------------------- *)
MaxFiles == 2
MaxClock == 2
MaxPaths == 11
MaxBatch == 3
MaxHeic == 1
MaxDevices == 2
MaxAttempts == 3

(* ------------------------- program constants -------------------------- *)
max_retries_off_by_one == 3 + 1
max_retries == 3
default_batch_size == 10
\* 1024 * 1024 * 1024 bytes; the model counts sizes in KiB, so that the
\* total of a tree stays within the integers the checker computes with
max_size == 1024 * 1024
NoTimestamp == -1

\* The paths of the source tree: f.jpg for f in Files, and s.heic for the
\* path MaxFiles + s of HeicFiles, whose .jpg sibling is the path s.
Files == 1..MaxFiles
HeicFiles == {MaxFiles + s : s \in 1..MaxHeic}
ScanSizes == {0, max_size, max_size + 1}
Devices == {<<"serial", d>> : d \in 1..MaxDevices}
NoDevice == <<"none", 0>>
None == 0
Unset == "None"

VARIABLES
  clock,               \* time.time()
  mtime, fsize,        \* the source tree: st_mtime and st_size of each path
  source_dir,          \* settings.source_dir, as path components
  rel_path,            \* where under source_dir each path of the tree lies
  last_sync_file,      \* content of last_sync_time.txt, NoTimestamp if absent
  pc,                  \* position of the run
  sync_all,            \* SyncConfig.sync_all
  last_sync_timestamp, \* SyncConfig.last_sync_timestamp
  sync_data,           \* run(): <<num_files, total_size_bytes>>
  files_for_transfer,  \* the candidate list handed to push_files
  devices,             \* select_device's list of connected devices
  selected_device,     \* ADBDeviceManager.selected_device (its id)
  model, manufacturer, \* selected_device.model / .manufacturer, None if unset
  idx,                 \* position of local_file in files_for_transfer
  attempt,             \* loop variable of _push_file
  transferred_files,   \* push_files' list of remote paths
  batch_size,          \* _batch_reindex_broadcasts' batch_size
  bi,                  \* _batch_reindex_broadcasts' loop variable i
  pf_result,           \* how push_files ended: "True", "False", "raised"
  es_result,           \* what execute_sync returned
  run_report,          \* the last line run() logged
  exc,                 \* the exception execute_sync caught, NoExc if none
  \* history of the run, read by the properties only
  run_start,           \* clock when the run started
  ts_before,           \* last_sync_file when the run started
  scan_in,             \* tree and settings the scan started from
  listing,             \* the lines "adb devices -l" printed
  asked,               \* what the user answered each time a device was asked for
  attempted,           \* files for which a bridge command was issued
  confirmed,           \* files with a push that exited 0 and printed the marker
  exhausted,           \* files for which _push_file returned None
  cur,                 \* the file _push_file was last called for
  mkdirs, sleeps,      \* attempts begun and sleeps made for cur
  ok_attempt,          \* the attempt whose push was confirmed, or 0
  cur_marker,          \* a push of cur printed the marker, whatever its exit
  file_finished,       \* _push_file has returned for cur
  broadcast_calls,     \* number of broadcast commands issued
  broadcast_paths,     \* remote paths carried by the broadcasts issued
  broadcast_failed,    \* how broadcast commands failed: "exit", "timeout", ...
  broadcast_args,      \* device id and -d argument of each broadcast, in order
  pbar_n,              \* tqdm's pbar.n: the progress reported so far
  sent_to,             \* the device ids mkdir and push commands were sent to
  targets,             \* local path and android_target of each _push_file call
  mkdir_ok,            \* the mkdir of the attempt under way exited 0
  ts_writes,           \* writes of last_sync_time.txt in this run
  remote,              \* the device's storage: directories, and files' content
  first_remote,        \* remote when the run started
  prev_exhausted,      \* exhausted of the previous run, until the scan is read
  prev_ts,             \* ts_before of the previous run
  modified,            \* files rewritten since the previous run
  all_files_pushed,    \* main.py adb_push_files: all_files_pushed
  push_failed,         \* candidates whose push of the legacy flow exited non-zero
  deleted,             \* paths delete_files_in_folder removed
  delete_asked,        \* the legacy flow asked whether to delete
  config,              \* _get_validated_input: its PromptConfig
  attempts,            \* _get_validated_input: attempts
  answer,              \* what get_user_confirmation returned, Asking before
  inputs               \* what the user typed at the prompt, in order

vars == <<clock, mtime, fsize, last_sync_file, pc, sync_all,
          last_sync_timestamp, sync_data, files_for_transfer, devices,
          selected_device, model, manufacturer, idx,
          attempt, transferred_files, batch_size, bi, pf_result, es_result,
          run_report, exc, run_start, ts_before, scan_in, listing, asked,
          attempted, confirmed,
          exhausted, cur, mkdirs, sleeps, ok_attempt, cur_marker,
          file_finished, broadcast_calls, broadcast_paths, broadcast_failed,
          prev_exhausted, prev_ts, modified, source_dir, rel_path,
          broadcast_args, pbar_n, sent_to, targets, mkdir_ok, ts_writes,
          remote, first_remote, all_files_pushed, push_failed, deleted,
          delete_asked, config, attempts, answer, inputs>>

fileHist == <<cur, mkdirs, sleeps, ok_attempt, cur_marker>>
treeVars == <<mtime, fsize, source_dir, rel_path>>
scanVars == <<sync_all, last_sync_timestamp, sync_data, files_for_transfer,
              scan_in>>
deviceVars == <<devices, selected_device, model, manufacturer, listing, asked>>
broadcastHist == <<broadcast_calls, broadcast_paths, broadcast_failed,
                   broadcast_args>>
pushVars == <<pbar_n, sent_to, targets, mkdir_ok, ts_writes, remote,
              first_remote>>
prevVars == <<prev_exhausted, prev_ts, modified>>
ctlVars == <<pc, idx, attempt, transferred_files, pf_result, es_result,
             run_report, file_finished, exhausted, exc>>
runHist == <<run_start, ts_before>>
legacyVars == <<all_files_pushed, push_failed, deleted, delete_asked>>
confirmVars == <<config, attempts, answer, inputs>>

(* ----------------------- the bridge command runner -------------------- *)
\* What one adb process can do: complete with an exit code and, on stderr,
\* the transfer summary ("bytes in") or not; outlive the timeout; or not
\* start at all, because no adb executable is found.
Completed(code, marker) ==
  [kind |-> "completed", returncode |-> code, bytes_in |-> marker]
TimedOut == [kind |-> "timeout", returncode |-> 0, bytes_in |-> FALSE]
NotStarted == [kind |-> "not_started", returncode |-> 0, bytes_in |-> FALSE]
PushOutcomes ==
  {Completed(c, m) : c \in {0, 1}, m \in BOOLEAN} \cup {TimedOut, NotStarted}
ShellOutcomes ==
  {Completed(c, FALSE) : c \in {0, 1}} \cup {TimedOut, NotStarted}

\* subprocess.run(..., timeout=30, check=True); only TimeoutExpired is
\* caught and turned into DeviceConnectionError.
run_adb_command(o) ==
  IF o.kind = "timeout" THEN "DeviceConnectionError"
  ELSE IF o.kind = "not_started" THEN "FileNotFoundError"
  ELSE IF o.returncode # 0 THEN "CalledProcessError"
  ELSE "returned"

\* How a command that did not return failed.
failure_kind(o) == IF o.kind = "completed" THEN "exit" ELSE o.kind

\* str(e) of what _run_adb_command raised
runner_message(o) ==
  IF o.kind = "timeout" THEN "ADB command timed out"
  ELSE IF o.kind = "not_started" THEN "No such file or directory: 'adb'"
  ELSE "returned non-zero exit status"

\* An exception on its way up: its type, its message (outermost first, each
\* wrapper quoting str(e) of what it caught), and what the bridge runner
\* had raised for which outcome, if it began there.
NoExc == [type |-> "none", msg |-> <<>>, kind |-> "none", bridge |-> "none"]
BridgeExc(o) ==
  [type |-> run_adb_command(o), msg |-> <<runner_message(o)>>,
   kind |-> o.kind, bridge |-> run_adb_command(o)]
Wrap(type, text, e) == [e EXCEPT !.type = type, !.msg = <<text>> \o e.msg]
Replace(type, text, e) == [e EXCEPT !.type = type, !.msg = <<text>>]
NewExc(type, text) ==
  [type |-> type, msg |-> <<text>>, kind |-> "none", bridge |-> "none"]

marker_not_checked(o) == TRUE
\* "bytes in" in result.stderr
bytes_in_stderr(o) == o.bytes_in

(* ----------------------------- the scan ------------------------------- *)
should_sync_not_strict(all, ts, m) == all \/ ts = NoTimestamp \/ m >= ts
should_sync_file(all, ts, m) == all \/ ts = NoTimestamp \/ m > ts

no_max_size(s) == FALSE
\* metadata.size > max_size
exceeds_max_size(s) == s > max_size

size_not_validated(s) == FALSE
\* TRUE when _validate_file_size raises FileSizeError
file_size_error(s) == s = 0 \/ exceeds_max_size(s)

\* file_path.suffix in _supported_formats
supported_format(p) == p \in HeicFiles

\* file_path.with_suffix('.jpg')
with_suffix_jpg(p) == p - MaxFiles

\* What the two converters make of a HEIC file: nothing (both fail), or a
\* JPEG of some size.
JpgSizes == {2}
ConvertOutcomes ==
  {[ok |-> FALSE, size |-> 0]} \cup {[ok |-> TRUE, size |-> s] : s \in JpgSizes}

\* The scan's accumulator: the tree as the scan has left it so far, and
\* total_size, file_count, files_for_sync.
ScanStart(m, s) ==
  [mtime |-> m, fsize |-> s, total_size |-> 0, file_count |-> 0,
   files_for_sync |-> <<>>]

\* image.save(jpg_path, "JPEG"); file_path.unlink()
convert_heic_to_jpg(acc, p, size, now) ==
  LET jpg == with_suffix_jpg(p)
      keep == (DOMAIN acc.fsize \ {p}) \cup {jpg}
  IN [acc EXCEPT
        !.fsize = [q \in keep |-> IF q = jpg THEN size ELSE acc.fsize[q]],
        !.mtime = [q \in keep |-> IF q = jpg THEN now ELSE acc.mtime[q]]]

\* total_size += size; file_count += 1; files_for_sync.append(path)
add_file(acc, q) ==
  [acc EXCEPT !.total_size = @ + acc.fsize[q],
              !.file_count = @ + 1,
              !.files_for_sync = Append(@, q)]

\* _process_file: the path to read the metadata of, None when the
\* conversion failed.
process_file(p, convert, conv) ==
  IF convert /\ supported_format(p)
  THEN IF conv[p].ok THEN with_suffix_jpg(p) ELSE None
  ELSE p

\* The tree after _process_file.
processed_tree(acc, p, convert, conv, now) ==
  IF convert /\ supported_format(p) /\ conv[p].ok
  THEN convert_heic_to_jpg(acc, p, conv[p].size, now)
  ELSE acc

\* One turn of calculate_metadata's loop over _scan_directory().
scan_file(acc, p, all, ts, convert, conv, now) ==
  LET processed_path == process_file(p, convert, conv)
      acc1 == processed_tree(acc, p, convert, conv, now)
  IN IF processed_path = None \/ processed_path \notin DOMAIN acc1.fsize
     THEN acc1
     ELSE IF should_sync_file(all, ts, acc1.mtime[processed_path])
             /\ ~file_size_error(acc1.fsize[processed_path])
          THEN add_file(acc1, processed_path)
          ELSE acc1

RECURSIVE ScanFrom(_, _, _, _, _, _, _, _)
ScanFrom(acc, paths, i, all, ts, convert, conv, now) ==
  IF i > Len(paths) THEN acc
  ELSE ScanFrom(scan_file(acc, paths[i], all, ts, convert, conv, now),
                paths, i + 1, all, ts, convert, conv, now)

\* MediaFileProcessor.calculate_metadata over the paths _scan_directory
\* listed, in the order it listed them.
calculate_metadata(paths, all, ts, convert, conv, now) ==
  ScanFrom(ScanStart(mtime, fsize), paths, 1, all, ts, convert, conv, now)

\* main.py calculate_metadata: one turn of its loop over os.walk.
legacy_scan_file(acc, p, ts, convert, conv, now) ==
  LET file_path == process_file(p, convert, conv)
      acc1 == processed_tree(acc, p, convert, conv, now)
  IN IF file_path = None THEN acc1
     ELSE IF ts = NoTimestamp \/ acc1.mtime[file_path] > ts
          THEN IF acc1.fsize[file_path] > 0
               THEN add_file(acc1, file_path)
               ELSE acc1
          ELSE acc1

RECURSIVE LegacyScanFrom(_, _, _, _, _, _, _)
LegacyScanFrom(acc, paths, i, ts, convert, conv, now) ==
  IF i > Len(paths) THEN acc
  ELSE LegacyScanFrom(legacy_scan_file(acc, paths[i], ts, convert, conv, now),
                      paths, i + 1, ts, convert, conv, now)

legacy_calculate_metadata(paths, ts, convert, conv, now) ==
  LegacyScanFrom(ScanStart(mtime, fsize), paths, 1, ts, convert, conv, now)

\* The paths of a tree in ascending and in descending order: the directory
\* listing comes in an order the file system chooses.
RECURSIVE Ascending(_)
Ascending(S) ==
  IF S = {} THEN <<>>
  ELSE LET least == CHOOSE x \in S : \A y \in S : x <= y
       IN <<least>> \o Ascending(S \ {least})

RECURSIVE Reverse(_)
Reverse(s) == IF s = <<>> THEN <<>> ELSE Append(Reverse(Tail(s)), Head(s))

scan_directory == {Ascending(DOMAIN fsize), Reverse(Ascending(DOMAIN fsize))}

\* SyncConfig.__init__: None if sync_all else get_last_sync_timestamp()
config_last_sync_timestamp(all) == IF all THEN NoTimestamp ELSE last_sync_file

(* ------------------------------ paths --------------------------------- *)
\* A path is the sequence of its components, and a component a pair of a
\* kind and a number: the file k, the directory k, "..".
file_name(k) == <<"file", k>>
dir_name(k) == <<"dir", k>>
dotdot == <<"..", 0>>

\* settings.target_dir, and the directory the program is started in
target_dir == <<dir_name(8), dir_name(9)>>
cwd == <<dir_name(7)>>

\* The ids of all paths the model names.
PathIds ==
  1..(IF MaxPaths > MaxFiles + MaxHeic THEN MaxPaths ELSE MaxFiles + MaxHeic)

\* Every path directly under source_dir, named after its id.
FlatLayout == [p \in PathIds |-> <<file_name(p)>>]

\* The source trees in which files 1 and 2 each lie in source_dir or in
\* its subdirectory 1, under their own name or under the name of file 1,
\* and every other path directly under source_dir.
FileRel ==
  {d \o <<file_name(k)>> : d \in {<<>>, <<dir_name(1)>>}, k \in 1..2}
Layouts ==
  {[p \in PathIds |-> IF p \in 1..2 THEN l[p] ELSE FlatLayout[p]] :
     l \in {m \in [1..2 -> FileRel] :
              /\ m[1] # m[2]
              /\ \A f \in 1..2 :
                   m[f][Len(m[f])] \in {file_name(1), file_name(f)}}}
SourceDirs == {<<dir_name(0)>>, <<dotdot, dir_name(0)>>}

\* The path rglob / os.walk yields for f: source_dir / ...
local_file(f) == source_dir \o rel_path[f]

IsPrefix(r, p) == Len(r) <= Len(p) /\ SubSeq(p, 1, Len(r)) = r
ValueError == <<<<"ValueError", 0>>>>

\* PurePath.relative_to: the components after root's, ValueError when p
\* does not begin with root's components.
relative_to(p, root) ==
  IF IsPrefix(root, p) THEN SubSeq(p, Len(root) + 1, Len(p)) ELSE ValueError

\* android_target.parent, os.path.dirname
parent(p) == SubSeq(p, 1, Len(p) - 1)

target_by_name(f) == target_dir \o <<local_file(f)[Len(local_file(f))]>>
\* target_dir / Path(local_file).relative_to(source_dir)
android_target(f) == target_dir \o relative_to(local_file(f), source_dir)

\* os.path.normpath: "x/.." is dropped, a leading ".." is kept.
RECURSIVE NormFrom(_, _, _)
NormFrom(p, i, out) ==
  IF i > Len(p) THEN out
  ELSE IF p[i] = dotdot /\ out # <<>> /\ out[Len(out)] # dotdot
       THEN NormFrom(p, i + 1, SubSeq(out, 1, Len(out) - 1))
       ELSE NormFrom(p, i + 1, Append(out, p[i]))
normpath(p) == NormFrom(p, 1, <<>>)

\* os.path.abspath of a relative path
abspath(p) == normpath(cwd \o p)

\* len(os.path.commonprefix([start_list, path_list]))
RECURSIVE CommonFrom(_, _, _)
CommonFrom(a, b, i) ==
  IF i < Len(a) /\ i < Len(b) /\ a[i + 1] = b[i + 1]
  THEN CommonFrom(a, b, i + 1)
  ELSE i

\* os.path.relpath(path, start)
relpath(path, start) ==
  LET start_list == abspath(start)
      path_list == abspath(path)
      i == CommonFrom(start_list, path_list, 0)
  IN [k \in 1..(Len(start_list) - i) |-> dotdot]
       \o SubSeq(path_list, i + 1, Len(path_list))

\* main.py adb_push_files: os.path.join(target_dir, relative_path)
legacy_android_target(f) == target_dir \o relpath(local_file(f), source_dir)

(* ------------------------- the device's storage ----------------------- *)
\* The bytes of a source file, told apart by the file and its write time.
content(f) == <<f, mtime[f]>>

\* The ancestors of a path, the path included.
Ancestors(p) == {SubSeq(p, 1, n) : n \in 1..Len(p)}

\* The storage of the device: its directories and the content of its
\* files.  The specifications that are not about what is left on the
\* device do not watch it: there every command leaves it Unwatched.
EmptyStorage == [watched |-> TRUE, dirs |-> {}, files |-> <<>>]
Unwatched == [watched |-> FALSE, dirs |-> {}, files |-> <<>>]

\* mkdir -p d: d and its missing ancestors exist afterwards.
remote_mkdir(r, d) ==
  IF r.watched THEN [r EXCEPT !.dirs = @ \cup Ancestors(d)] ELSE r

remote_push_keeps_old(r, p, c) ==
  LET q == IF p \in DOMAIN r.files THEN Append(p, file_name(0)) ELSE p
  IN IF r.watched
     THEN [r EXCEPT !.files =
             [x \in DOMAIN r.files \cup {q} |->
                IF x = q THEN c ELSE r.files[x]]]
     ELSE r
\* adb push local p: the file at p holds the local file's bytes afterwards,
\* whatever it held before.
remote_push(r, p, c) ==
  IF r.watched
  THEN [r EXCEPT !.files =
          [x \in DOMAIN r.files \cup {p} |-> IF x = p THEN c ELSE r.files[x]]]
  ELSE r

adb_s_first_listed(sel) == <<"serial", 1>>
\* '-s', self.selected_device.id: the device a command is addressed to
adb_s(sel) == sel

\* ' '.join([f"file://{path}" for path in file_paths]): the prefixed
\* paths in order, the spaces between them left out.
paths_arg(file_paths) ==
  [k \in 1..Len(file_paths) |-> <<"file://", file_paths[k]>>]

pbar_update_per_attempt(n, size, marker) == n + size
\* progress_callback(os.path.getsize(local_file)), called when the push
\* printed the marker
pbar_update(n, size, marker) == IF marker THEN n + size ELSE n

timestamp_not_written(old, now) == old
\* what update_last_sync_timestamp leaves in last_sync_time.txt
update_last_sync_timestamp(old, now) == now

\* The scan has not run: nothing to compare its result with.
NoScan == [mtime |-> <<>>, fsize |-> <<>>, convert_heic |-> FALSE,
           conv |-> <<>>, flow |-> "none"]

\* What a scan starts from: the tree, the conversion setting and, when it
\* converts, what the converters make of the HEIC files of the tree.
ScanIn(convert, conv, flow) ==
  [mtime |-> mtime, fsize |-> fsize, convert_heic |-> convert,
   conv |-> [p \in {q \in HeicFiles \cap DOMAIN fsize : convert} |-> conv[p]],
   flow |-> flow]

(* --------------------------- device listing --------------------------- *)
\* The second word of a line of "adb devices -l", and str.upper() of it.
DeviceStates == {"device", "unauthorized", "offline", "unknown", "recovery"}
upper(s) ==
  CASE s = "device" -> "DEVICE"
    [] s = "unauthorized" -> "UNAUTHORIZED"
    [] s = "offline" -> "OFFLINE"
    [] s = "unknown" -> "UNKNOWN"
    [] s = "recovery" -> "RECOVERY"

\* The names of the members of the enumeration DeviceStatus
DeviceStatus == {"DEVICE", "UNAUTHORIZED", "OFFLINE", "UNKNOWN"}

\* line.split() of the lines after the header: <<id, state>>, or a line of
\* one word.
Lines == {<<d, s>> : d \in Devices, s \in DeviceStates} \cup {<<NoDevice>>}
Listings ==
  {l \in UNION {[1..n -> Lines] : n \in 0..MaxDevices} :
     \A i, j \in DOMAIN l :
       i # j /\ Len(l[i]) >= 2 /\ Len(l[j]) >= 2 => l[i][1] # l[j][1]}
\* The listings that name the first device only.
FirstDevice == CHOOSE d \in Devices : d[2] = 1
SingleListings ==
  {l \in UNION {[1..n -> Lines] : n \in 0..1} :
     \A i \in DOMAIN l : Len(l[i]) >= 2 => l[i][1] = FirstDevice}

\* The loop of _get_connected_devices from line i on: the DeviceInfo list,
\* or not ok when DeviceStatus[...] raises KeyError.
RECURSIVE ParseFrom(_, _, _)
ParseFrom(lines, i, devs) ==
  IF i > Len(lines) THEN [ok |-> TRUE, devices |-> devs]
  ELSE LET parts == lines[i]
       IN IF Len(parts) >= 2
          THEN IF upper(parts[2]) \notin DeviceStatus
               THEN [ok |-> FALSE, devices |-> <<>>]
               ELSE IF upper(parts[2]) = "DEVICE"
                    THEN ParseFrom(lines, i + 1, Append(devs, parts[1]))
                    ELSE ParseFrom(lines, i + 1, devs)
          ELSE ParseFrom(lines, i + 1, devs)

get_connected_devices(lines) == ParseFrom(lines, 1, <<>>)

\* What the user types at "Select device": a number, nothing, something
\* else, or Ctrl-C / end of input.
Answers ==
  {[kind |-> "int", value |-> v] : v \in 0..(MaxDevices + 1)}
    \cup {[kind |-> k, value |-> 0] : k \in {"empty", "text", "interrupt"}}

typed_input_defaults_to_first(ans, n) ==
  IF ans.kind = "int" /\ 1 <= ans.value /\ ans.value <= n
  THEN ans.value
  ELSE IF ans.kind = "empty" THEN 1 ELSE None
\* utils.get_typed_input(input_type=int, default=None,
\* validator=lambda x: 1 <= x <= len(devices)): the number, or None.
get_typed_input(ans, n) ==
  IF ans.kind = "int" /\ 1 <= ans.value /\ ans.value <= n
  THEN ans.value
  ELSE None

chosen_off_by_one(devs, choice) ==
  devs[IF choice < Len(devs) THEN choice + 1 ELSE 1]
\* devices[choice - 1], the lists of the model being indexed from 1
chosen_device(devs, choice) == devs[choice]

(* ----------------------- get_user_confirmation ----------------------- *)
\* What is typed at a prompt: the characters left when the blanks around
\* them are taken away, whether they are in upper case, and whether blanks
\* stood around them.  chars "" is the empty line.
Text(chars, up, padded) ==
  [chars |-> chars, upper |-> up, padded |-> padded]
Texts ==
  {Text(c, u, b) : c \in {"y", "n", "x"}, u \in BOOLEAN, b \in BOOLEAN}
    \cup {Text("", FALSE, b) : b \in BOOLEAN}
Interrupt == [chars |-> "^C", upper |-> FALSE, padded |-> FALSE]

\* str.strip() and str.lower()
strip(t) == [t EXCEPT !.padded = FALSE]
lower(t) == [t EXCEPT !.upper = FALSE]

\* The value None, and the answer of a call that has not returned.
NoneValue == "None"
Asking == "asking"

\* valid_options of the y/n prompts, with the keys in lower or in upper
\* case: {'y': True, 'n': False}.
yn_options(up) ==
  [k \in {Text("y", up, FALSE), Text("n", up, FALSE)} |->
     IF k.chars = "y" THEN "True" ELSE "False"]

\* PromptConfig(prompt, valid_options, default, case_sensitive,
\* max_attempts); default is a key of valid_options.
Configs ==
  {[valid_options |-> yn_options(u), default |-> Text(d, u, FALSE),
    case_sensitive |-> cs, max_attempts |-> m] :
     u \in BOOLEAN, d \in {"y", "n"}, cs \in BOOLEAN, m \in 1..MaxAttempts}

\* max_attempts: int = 3, and the configuration of "Start the transfer?"
default_max_attempts == 3
StartConfig ==
  [valid_options |-> yn_options(FALSE), default |-> Text("y", FALSE, FALSE),
   case_sensitive |-> FALSE, max_attempts |-> default_max_attempts]

\* {k.lower(): v for k, v in valid_options.items()}, or valid_options
processed_options(cfg) ==
  IF ~cfg.case_sensitive
  THEN [x \in {lower(k) : k \in DOMAIN cfg.valid_options} |->
          cfg.valid_options[CHOOSE k \in DOMAIN cfg.valid_options :
                              lower(k) = x]]
  ELSE cfg.valid_options

\* user_input as it is looked up: stripped, and lowered unless the prompt
\* is case sensitive.
processed_input(cfg, t) ==
  IF ~cfg.case_sensitive THEN lower(strip(t)) ELSE strip(t)

invalid_counted_twice(n) == n + 2
\* attempts += 1
count_invalid(n) == n + 1

\* One turn of _get_validated_input's loop: what it returns, Asking when
\* the loop goes on, and attempts afterwards.
validated_input(cfg, n, t) ==
  IF t = Interrupt
  THEN [answer |-> NoneValue, attempts |-> n]
  ELSE IF strip(t).chars = ""
  THEN [answer |-> cfg.valid_options[cfg.default], attempts |-> n]
  ELSE IF processed_input(cfg, t) \in DOMAIN processed_options(cfg)
  THEN [answer |-> processed_options(cfg)[processed_input(cfg, t)],
        attempts |-> n]
  ELSE IF count_invalid(n) < cfg.max_attempts
  THEN [answer |-> Asking, attempts |-> count_invalid(n)]
  ELSE [answer |-> NoneValue, attempts |-> count_invalid(n)]

(* ------------------- control flow of push_files ----------------------- *)
\* The part of the state that the end of a bridge command decides.
Ctl ==
  [pc |-> pc, idx |-> idx, attempt |-> attempt, tf |-> transferred_files,
   pf |-> pf_result, es |-> es_result, rep |-> run_report,
   fin |-> file_finished, exh |-> exhausted, exc |-> exc]

Apply(c) ==
  /\ pc' = c.pc
  /\ idx' = c.idx
  /\ attempt' = c.attempt
  /\ transferred_files' = c.tf
  /\ pf_result' = c.pf
  /\ es_result' = c.es
  /\ run_report' = c.rep
  /\ file_finished' = c.fin
  /\ exhausted' = c.exh
  /\ exc' = c.exc

\* execute_sync ignores what push_files returns: any return is "True", and
\* run() then logs "Photo sync completed successfully".
execute_sync_returns(pf) == "True"

\* ADBDeviceManager() raises e; execute_sync catches it and returns False.
ConstructorRaised(c, e) ==
  [c EXCEPT !.pc = "done", !.es = "False", !.rep = "failed_or_cancelled",
            !.exc = e]

\* The exception e leaves push_files; execute_sync catches it.
Raised(c, e) ==
  [c EXCEPT !.pc = "done", !.pf = "raised", !.es = "False",
            !.rep = "failed_or_cancelled", !.exc = e]

select_failure_logged(c, e) ==
  [c EXCEPT !.pc = "mkdir", !.idx = 1, !.attempt = 0,
            !.exc = Wrap("DeviceConnectionError", "Failed to select device", e)]
\* select_device: except Exception as e: raise DeviceConnectionError(
\* f"Failed to select device: {str(e)}"); push_files calls select_device
\* outside its try block.
SelectFailed(c, e) ==
  Raised(c, Wrap("DeviceConnectionError", "Failed to select device", e))

\* Inside push_files' try block: except Exception as e: raise
\* FileTransferError(f"File transfer failed: {str(e)}")
TransferFailed(c, e) ==
  Raised(c, Wrap("FileTransferError", "File transfer failed", e))

\* push_files returns pf.
Returned(c, pf) ==
  [c EXCEPT !.pc = "done", !.pf = pf, !.es = execute_sync_returns(pf),
            !.rep = IF execute_sync_returns(pf) = "True"
                    THEN "completed_successfully"
                    ELSE "failed_or_cancelled"]

\* select_device has returned: the loop over files_for_transfer begins, and
\* over an empty list ends at once with transferred_files empty.
LoopStart(c) ==
  IF files_for_transfer = <<>>
  THEN Returned(c, "False")
  ELSE [c EXCEPT !.pc = "mkdir", !.idx = 1, !.attempt = 0]

file_done_ends_loop(c) ==
  IF c.tf # <<>>
  THEN [c EXCEPT !.pc = "broadcast", !.fin = TRUE]
  ELSE Returned([c EXCEPT !.fin = TRUE], "False")
\* _push_file has returned: the next file, or the end of the loop, where an
\* empty transferred_files makes push_files return False.
FileDone(c) ==
  IF c.idx < Len(files_for_transfer)
  THEN [c EXCEPT !.idx = c.idx + 1, !.attempt = 0, !.pc = "mkdir",
                 !.fin = TRUE]
  ELSE IF c.tf # <<>>
       THEN [c EXCEPT !.pc = "broadcast", !.fin = TRUE]
       ELSE Returned([c EXCEPT !.fin = TRUE], "False")

\* The loop of _push_file ends without a success: return None.
ReturnNone(c) ==
  FileDone([c EXCEPT !.exh = c.exh \cup {files_for_transfer[c.idx]}])

\* except subprocess.CalledProcessError: sleep unless this was the last
\* attempt, then continue.
ExceptCalledProcessError(c) ==
  IF c.attempt < max_retries - 1
  THEN [c EXCEPT !.pc = "sleep"]
  ELSE ReturnNone(c)

mkdir_failure_ignored(c) == [c EXCEPT !.pc = "push"]
\* The mkdir of an attempt raised CalledProcessError: the push of the
\* attempt is skipped, the handler being that of the whole try block.
MkdirFailed(c) == ExceptCalledProcessError(c)

no_marker_same_attempt(c) == [c EXCEPT !.pc = "mkdir"]
\* The push exited 0 without the marker: the try block ends and the loop
\* goes on to the next attempt.
NoMarker(c) ==
  IF c.attempt < max_retries - 1
  THEN [c EXCEPT !.attempt = c.attempt + 1, !.pc = "mkdir"]
  ELSE ReturnNone(c)

\* The push exited 0 with the marker: return str(android_target), which
\* push_files appends to transferred_files.
PushSucceeded(c) ==
  FileDone([c EXCEPT !.tf = Append(c.tf,
                                   android_target(files_for_transfer[c.idx]))])

\* file_paths[i:i + batch_size]
Batch(paths, i, size) ==
  SubSeq(paths, i + 1, IF i + size < Len(paths) THEN i + size ELSE Len(paths))

Range(s) == {s[k] : k \in 1..Len(s)}

\* The broadcast of one batch is over (sent, or BroadcastError logged).
BatchDone(c) ==
  IF bi + batch_size < Len(transferred_files)
  THEN c
  ELSE [c EXCEPT !.pc = "commit"]

candidates_never_empty(n) == FALSE
\* run(): if num_files == 0
no_new_files(n) == n = 0

(* ------------------------------- Init --------------------------------- *)
\* adb_push_files has not been called.
NoLegacy ==
  /\ all_files_pushed = TRUE
  /\ push_failed = {}
  /\ deleted = {}
  /\ delete_asked = FALSE

\* No prompt of get_user_confirmation is being followed.
NoPrompt ==
  /\ config = StartConfig
  /\ attempts = 0
  /\ answer = Asking
  /\ inputs = <<>>

\* No run has started.
Idle ==
  /\ prev_exhausted = {}
  /\ prev_ts = NoTimestamp
  /\ pc = "idle"
  /\ sync_all = TRUE
  /\ last_sync_timestamp = NoTimestamp
  /\ sync_data = <<0, 0>>
  /\ files_for_transfer = <<>>
  /\ devices = <<>>
  /\ selected_device = NoDevice
  /\ model = Unset
  /\ manufacturer = Unset
  /\ idx = 0
  /\ attempt = 0
  /\ transferred_files = <<>>
  /\ bi = 0
  /\ pf_result = "none"
  /\ es_result = "none"
  /\ run_report = "none"
  /\ exc = NoExc
  /\ run_start = 0
  /\ ts_before = NoTimestamp
  /\ scan_in = NoScan
  /\ listing = <<>>
  /\ asked = <<>>
  /\ attempted = {}
  /\ confirmed = {}
  /\ exhausted = {}
  /\ cur = 0
  /\ mkdirs = 0
  /\ cur_marker = FALSE
  /\ sleeps = 0
  /\ ok_attempt = 0
  /\ file_finished = FALSE
  /\ broadcast_calls = 0
  /\ broadcast_paths = {}
  /\ broadcast_failed = {}
  /\ broadcast_args = <<>>
  /\ pbar_n = 0
  /\ sent_to = {}
  /\ targets = {}
  /\ mkdir_ok = FALSE
  /\ ts_writes = 0
  /\ modified = {}
  /\ NoLegacy

NoRun == Idle /\ NoPrompt

\* The files lie directly under source_dir, and the device's storage is
\* not watched.
FlatUnwatched ==
  /\ source_dir = <<dir_name(0)>>
  /\ rel_path = FlatLayout
  /\ remote = Unwatched
  /\ first_remote = Unwatched

\* The source tree holds MaxFiles .jpg files of a size the scan accepts,
\* each written at or before the current time; last_sync_time.txt is absent
\* or holds an earlier time.
Init ==
  /\ clock = 1
  /\ mtime \in [Files -> 0..1]
  /\ fsize = [f \in Files |-> 1]
  /\ last_sync_file \in {NoTimestamp, 0}
  /\ batch_size = default_batch_size
  /\ NoRun
  /\ FlatUnwatched

(* ------------------------------ actions ------------------------------- *)
\* Time passes.  Only the scan, the rewrite of a file and the write of the
\* timestamp read the clock, so time is let pass where one of them is next.
Tick ==
  /\ clock < MaxClock
  /\ \/ pc = "commit"
     \/ pc = "idle"
  /\ clock' = clock + 1
  /\ UNCHANGED <<legacyVars, confirmVars, treeVars, last_sync_file, ctlVars, scanVars, deviceVars,
                 batch_size, bi, runHist, attempted, confirmed, fileHist, pushVars,
                 broadcastHist, prevVars>>

\* Between two runs the user rewrites a source file.
Touch(f) ==
  /\ pc = "idle"
  /\ f \in DOMAIN mtime
  /\ mtime' = [mtime EXCEPT ![f] = clock]
  /\ modified' = modified \cup {f}
  /\ UNCHANGED <<legacyVars, confirmVars, clock, fsize, source_dir, rel_path, last_sync_file, ctlVars,
                 scanVars, deviceVars,
                 batch_size, bi, runHist, attempted, confirmed, fileHist, pushVars,
                 broadcastHist, prev_exhausted, prev_ts>>

\* run(): get_sync_settings returns None (a prompt was interrupted or not
\* answered validly) and the run ends.
SettingsCancelled ==
  /\ pc = "idle"
  /\ pc' = "done"
  /\ run_report' = "settings_cancelled"
  /\ run_start' = clock
  /\ ts_before' = last_sync_file
  /\ UNCHANGED <<legacyVars, confirmVars, clock, treeVars, last_sync_file, idx, attempt,
                 transferred_files, pf_result, es_result, file_finished,
                 exhausted, exc, scanVars, deviceVars, batch_size, bi,
                 attempted, confirmed, fileHist, pushVars, broadcastHist, prevVars>>

\* run(): get_sync_settings chose the conversion and the sync mode;
\* prepare_sync builds the SyncConfig and scans the paths _scan_directory
\* listed, conv being what the converters make of each HEIC file; an empty
\* candidate list ends the run.
RunPrepare(all, convert, conv, paths) ==
  /\ pc = "idle"
  /\ sync_all' = all
  /\ last_sync_timestamp' = config_last_sync_timestamp(all)
  /\ scan_in' = ScanIn(convert, conv, "sync_manager")
  /\ LET acc == calculate_metadata(paths, all,
                                   config_last_sync_timestamp(all),
                                   convert, conv, clock)
     IN /\ mtime' = acc.mtime
        /\ fsize' = acc.fsize
        /\ sync_data' = <<acc.file_count, acc.total_size>>
        /\ files_for_transfer' = acc.files_for_sync
        /\ IF no_new_files(acc.file_count)
           THEN pc' = "done" /\ run_report' = "no_new_files"
           ELSE pc' = "confirm" /\ run_report' = "none"
  /\ run_start' = clock
  /\ ts_before' = last_sync_file
  /\ UNCHANGED <<legacyVars, confirmVars, clock, source_dir, rel_path, last_sync_file, idx, attempt,
                 transferred_files,
                 pf_result, es_result, file_finished, exhausted, exc,
                 deviceVars, batch_size, bi, attempted, confirmed, fileHist, pushVars,
                 broadcastHist, prevVars>>

\* main.py: main() chose the conversion and the sync mode and calls
\* calculate_metadata(source_folder, last_sync_timestamp, convert_heic).
LegacyCalculateMetadata(all, convert, conv, paths) ==
  /\ pc = "idle"
  /\ sync_all' = all
  /\ last_sync_timestamp' = config_last_sync_timestamp(all)
  /\ scan_in' = ScanIn(convert, conv, "legacy")
  /\ LET acc == legacy_calculate_metadata(paths,
                                          config_last_sync_timestamp(all),
                                          convert, conv, clock)
     IN /\ mtime' = acc.mtime
        /\ fsize' = acc.fsize
        /\ sync_data' = <<acc.file_count, acc.total_size>>
        /\ files_for_transfer' = acc.files_for_sync
  /\ pc' = "legacy_scanned"
  /\ run_start' = clock
  /\ ts_before' = last_sync_file
  /\ UNCHANGED <<legacyVars, confirmVars, clock, source_dir, rel_path, last_sync_file, idx, attempt,
                 transferred_files,
                 pf_result, es_result, run_report, file_finished, exhausted,
                 exc, deviceVars, batch_size, bi, attempted, confirmed,
                 fileHist, pushVars, broadcastHist, prevVars>>

\* execute_sync: "Start the transfer?"; anything but yes returns False,
\* yes goes on to ADBDeviceManager().
ConfirmStart(yes) ==
  /\ pc = "confirm"
  /\ IF yes
     THEN /\ pc' = "verify"
          /\ UNCHANGED <<es_result, run_report>>
     ELSE /\ pc' = "done"
          /\ es_result' = "False"
          /\ run_report' = "failed_or_cancelled"
  /\ prev_exhausted' = {}
  /\ prev_ts' = NoTimestamp
  /\ modified' = {}
  /\ scan_in' = NoScan
  /\ UNCHANGED <<legacyVars, confirmVars, clock, treeVars, last_sync_file, idx, attempt,
                 transferred_files, pf_result, file_finished, exhausted, exc,
                 sync_all, last_sync_timestamp, sync_data, files_for_transfer,
                 deviceVars, batch_size, bi, runHist, attempted, confirmed,
                 fileHist, pushVars, broadcastHist>>

\* ADBDeviceManager.__init__: _verify_adb_installation runs "adb version"
\* and turns CalledProcessError into DeviceConnectionError.
VerifyAdbInstallation(o) ==
  /\ pc = "verify"
  /\ CASE run_adb_command(o) = "returned" ->
            Apply([Ctl EXCEPT !.pc = "devices"])
       [] run_adb_command(o) = "CalledProcessError" ->
            Apply(ConstructorRaised(Ctl,
                    Replace("DeviceConnectionError",
                            "ADB is not installed or accessible",
                            BridgeExc(o))))
       [] OTHER ->
            Apply(ConstructorRaised(Ctl, BridgeExc(o)))
  /\ UNCHANGED <<legacyVars, confirmVars, clock, treeVars, last_sync_file, scanVars, deviceVars,
                 batch_size, bi, runHist, attempted, confirmed, fileHist, pushVars,
                 broadcastHist, prevVars>>

\* push_files -> select_device: _get_connected_devices runs
\* "adb devices -l" and parses lines; no device raises, one device is
\* selected, several are put to the user.
GetConnectedDevices(o, lines) ==
  /\ pc = "devices"
  /\ IF run_adb_command(o) # "returned"
     THEN /\ Apply(SelectFailed(Ctl,
                     Wrap("DeviceConnectionError",
                          "Failed to get device list", BridgeExc(o))))
          /\ UNCHANGED <<devices, selected_device, listing>>
     ELSE /\ listing' = lines
          /\ LET parsed == get_connected_devices(lines)
             IN IF ~parsed.ok
                THEN /\ Apply(SelectFailed(Ctl,
                                Wrap("DeviceConnectionError",
                                     "Failed to get device list",
                                     NewExc("KeyError", "RECOVERY"))))
                     /\ UNCHANGED <<devices, selected_device>>
                ELSE /\ devices' = parsed.devices
                     /\ IF Len(parsed.devices) = 0
                        THEN /\ Apply(SelectFailed(Ctl,
                                        NewExc("DeviceConnectionError",
                                               "No devices connected")))
                             /\ UNCHANGED selected_device
                        ELSE IF Len(parsed.devices) = 1
                        THEN /\ selected_device' = parsed.devices[1]
                             /\ Apply([Ctl EXCEPT !.pc = "getprop_model"])
                        ELSE /\ Apply([Ctl EXCEPT !.pc = "prompt"])
                             /\ UNCHANGED selected_device
  /\ UNCHANGED <<legacyVars, confirmVars, clock, treeVars, last_sync_file, scanVars, model,
                 manufacturer, asked, batch_size, bi, runHist, attempted,
                 confirmed, fileHist, pushVars, broadcastHist, prevVars>>

\* _prompt_for_device_choice: get_typed_input is called once; None raises
\* "Device selection cancelled", a number selects devices[choice - 1].
PromptForDeviceChoice(ans) ==
  /\ pc = "prompt"
  /\ asked' = Append(asked, ans)
  /\ LET choice == get_typed_input(ans, Len(devices))
     IN IF choice = None
        THEN /\ Apply(SelectFailed(Ctl,
                        NewExc("DeviceConnectionError",
                               "Device selection cancelled")))
             /\ UNCHANGED selected_device
        ELSE /\ selected_device' = chosen_device(devices, choice)
             /\ Apply([Ctl EXCEPT !.pc = "getprop_model"])
  /\ UNCHANGED <<legacyVars, confirmVars, clock, treeVars, last_sync_file, scanVars, devices, model,
                 manufacturer, listing, batch_size, bi, runHist, attempted,
                 confirmed, fileHist, pushVars, broadcastHist, prevVars>>

\* _fetch_device_details: getprop ro.product.model; CalledProcessError is
\* logged and ends the fetch, select_device returning the device.
FetchModel(o) ==
  /\ pc = "getprop_model"
  /\ CASE run_adb_command(o) = "returned" ->
            /\ model' = "stdout"
            /\ Apply([Ctl EXCEPT !.pc = "getprop_manufacturer"])
            /\ UNCHANGED <<devices, listing>>
       [] run_adb_command(o) = "CalledProcessError" ->
            /\ Apply(LoopStart(Ctl))
            /\ devices' = <<>>
            /\ listing' = <<>>
            /\ UNCHANGED model
       [] OTHER ->
            /\ Apply(SelectFailed(Ctl, BridgeExc(o)))
            /\ UNCHANGED <<model, devices, listing>>
  /\ UNCHANGED <<legacyVars, confirmVars, clock, treeVars, last_sync_file, scanVars, selected_device,
                 manufacturer, asked, batch_size, bi, runHist, attempted,
                 confirmed, fileHist, pushVars, broadcastHist, prevVars>>

\* _fetch_device_details: getprop ro.product.manufacturer; then
\* select_device returns and push_files starts its loop.
FetchManufacturer(o) ==
  /\ pc = "getprop_manufacturer"
  /\ CASE run_adb_command(o) = "returned" ->
            /\ manufacturer' = "stdout"
            /\ Apply(LoopStart(Ctl))
            /\ devices' = <<>>
            /\ listing' = <<>>
       [] run_adb_command(o) = "CalledProcessError" ->
            /\ Apply(LoopStart(Ctl))
            /\ devices' = <<>>
            /\ listing' = <<>>
            /\ UNCHANGED manufacturer
       [] OTHER ->
            /\ Apply(SelectFailed(Ctl, BridgeExc(o)))
            /\ UNCHANGED <<manufacturer, devices, listing>>
  /\ UNCHANGED <<legacyVars, confirmVars, clock, treeVars, last_sync_file, scanVars, selected_device,
                 model, asked, batch_size, bi, runHist, attempted,
                 confirmed, fileHist, pushVars, broadcastHist, prevVars>>

\* _push_file: adb -s <id> shell mkdir -p <parent of android_target>
Mkdir(o) ==
  /\ pc = "mkdir"
  /\ relative_to(local_file(files_for_transfer[idx]), source_dir) # ValueError
  /\ cur' = files_for_transfer[idx]
  /\ mkdirs' = IF attempt = 0 THEN 1 ELSE mkdirs + 1
  /\ cur_marker' = IF attempt = 0 THEN FALSE ELSE cur_marker
  /\ sleeps' = IF attempt = 0 THEN 0 ELSE sleeps
  /\ ok_attempt' = IF attempt = 0 THEN 0 ELSE ok_attempt
  /\ attempted' = attempted \cup {files_for_transfer[idx]}
  /\ sent_to' = sent_to \cup {adb_s(selected_device)}
  /\ targets' =
       targets \cup {[local |-> local_file(files_for_transfer[idx]),
                      remote |-> android_target(files_for_transfer[idx])]}
  /\ mkdir_ok' = (o.kind = "completed" /\ o.returncode = 0)
  /\ remote' =
       IF o.kind = "completed" /\ o.returncode = 0
       THEN remote_mkdir(remote, parent(android_target(files_for_transfer[idx])))
       ELSE remote
  /\ LET c == [Ctl EXCEPT !.fin = FALSE]
     IN CASE run_adb_command(o) = "returned" ->
               Apply([c EXCEPT !.pc = "push"])
          [] run_adb_command(o) = "CalledProcessError" ->
               Apply(MkdirFailed(c))
          [] OTHER ->
               Apply(TransferFailed(c, BridgeExc(o)))
  /\ UNCHANGED <<legacyVars, confirmVars, clock, treeVars, last_sync_file, scanVars, deviceVars,
                 batch_size, bi, runHist, confirmed, broadcastHist,
                 prevVars, pbar_n, ts_writes, first_remote>>

\* _push_file: adb -s <id> push <local_file> <android_target>
Push(o) ==
  /\ pc = "push"
  /\ cur_marker' = (cur_marker \/ (o.kind = "completed" /\ o.bytes_in))
  /\ confirmed' = IF o.kind = "completed" /\ o.returncode = 0 /\ o.bytes_in
                  THEN confirmed \cup {files_for_transfer[idx]}
                  ELSE confirmed
  /\ ok_attempt' = IF o.kind = "completed" /\ o.returncode = 0 /\ o.bytes_in
                   THEN attempt + 1
                   ELSE ok_attempt
  /\ CASE run_adb_command(o) = "returned" ->
            IF bytes_in_stderr(o)
            THEN Apply(PushSucceeded(Ctl))
            ELSE Apply(NoMarker(Ctl))
       [] run_adb_command(o) = "CalledProcessError" ->
            Apply(ExceptCalledProcessError(Ctl))
       [] OTHER ->
            Apply(TransferFailed(Ctl, BridgeExc(o)))
  /\ sent_to' = sent_to \cup {adb_s(selected_device)}
  /\ mkdir_ok' = FALSE
  /\ pbar_n' =
       IF run_adb_command(o) = "returned"
       THEN pbar_update(pbar_n, fsize[files_for_transfer[idx]],
                        bytes_in_stderr(o))
       ELSE pbar_n
  /\ remote' =
       IF o.kind = "completed" /\ o.returncode = 0
       THEN remote_push(remote, android_target(files_for_transfer[idx]),
                        content(files_for_transfer[idx]))
       ELSE remote
  /\ UNCHANGED <<legacyVars, confirmVars, clock, treeVars, last_sync_file, scanVars, deviceVars,
                 batch_size, bi, runHist, attempted, cur, mkdirs, sleeps,
                 broadcastHist, prevVars, targets, ts_writes, first_remote>>

\* _push_file: time.sleep(1), then continue with the next attempt
Sleep ==
  /\ pc = "sleep"
  /\ sleeps' = sleeps + 1
  /\ attempt' = attempt + 1
  /\ pc' = "mkdir"
  /\ UNCHANGED <<legacyVars, confirmVars, clock, treeVars, last_sync_file, scanVars, deviceVars, idx,
                 transferred_files, batch_size, bi, pf_result, es_result,
                 run_report, exc, runHist, attempted, confirmed, exhausted,
                 cur, mkdirs, ok_attempt, cur_marker, file_finished,
                 broadcastHist, prevVars, pushVars>>

\* _batch_reindex_broadcasts: one _send_reindex_broadcast of the batch at i;
\* CalledProcessError becomes BroadcastError, which the loop logs.
SendReindexBroadcast(o) ==
  /\ pc = "broadcast"
  /\ broadcast_calls' = broadcast_calls + 1
  /\ broadcast_paths' =
       broadcast_paths \cup Range(Batch(transferred_files, bi, batch_size))
  /\ broadcast_failed' =
       IF run_adb_command(o) = "returned"
       THEN broadcast_failed
       ELSE broadcast_failed \cup {failure_kind(o)}
  /\ broadcast_args' =
       Append(broadcast_args,
              [id |-> adb_s(selected_device),
               data |-> paths_arg(Batch(transferred_files, bi, batch_size))])
  /\ bi' = bi + batch_size
  /\ CASE run_adb_command(o) = "returned" ->
            Apply(BatchDone(Ctl))
       [] run_adb_command(o) = "CalledProcessError" ->
            Apply(BatchDone(Ctl))
       [] OTHER ->
            Apply(TransferFailed(Ctl, BridgeExc(o)))
  /\ UNCHANGED <<legacyVars, confirmVars, clock, treeVars, last_sync_file, scanVars, deviceVars,
                 batch_size, runHist, attempted, confirmed, fileHist, pushVars,
                 prevVars>>

\* push_files: SyncConfig.update_last_sync_timestamp(); return True
UpdateLastSync ==
  /\ pc = "commit"
  /\ last_sync_file' = update_last_sync_timestamp(last_sync_file, clock)
  /\ ts_writes' = ts_writes + 1
  /\ Apply(Returned(Ctl, "True"))
  /\ UNCHANGED <<legacyVars, confirmVars, clock, treeVars, scanVars, deviceVars, batch_size, bi,
                 runHist, attempted, confirmed, fileHist, broadcastHist,
                 prevVars, pbar_n, sent_to, targets, mkdir_ok, remote,
                 first_remote>>

(* ---------------------- the legacy flow of main.py -------------------- *)
\* subprocess.run without check and without timeout: the command ends
\* with an exit code, or no adb executable is found.
LegacyOutcomes == {Completed(c, FALSE) : c \in {0, 1}} \cup {NotStarted}

\* The variables of the run that the legacy flow leaves alone.
legacyRest ==
  <<attempt, transferred_files, pf_result, es_result, run_report,
    file_finished, exhausted, scanVars, model, manufacturer, listing, asked,
    batch_size, bi, runHist, confirmed, fileHist, sent_to, mkdir_ok, remote,
    first_remote, broadcast_paths, broadcast_args, prevVars, confirmVars,
    source_dir, rel_path, clock>>

\* FileNotFoundError leaves main() uncaught: the process ends.
LegacyCrash(o) ==
  /\ pc' = "done"
  /\ exc' = BridgeExc(o)

last_push_decides(flag, rc) == rc = 0
\* all_files_pushed after a push that exited rc: False once a push failed
legacy_all_pushed(flag, rc) == IF rc = 0 THEN flag ELSE FALSE

\* for local_file_path in files_for_transfer: the next file, or the end
\* of the loop.
LegacyNextFile ==
  IF idx < Len(files_for_transfer)
  THEN pc' = "legacy_mkdir" /\ idx' = idx + 1
  ELSE pc' = "legacy_finish" /\ idx' = idx

\* main(): no file to sync ends the run; else "Start the transfer?".
LegacyConfirmStart(yes) ==
  /\ pc = "legacy_scanned"
  /\ pc' = IF sync_data[1] # 0 /\ yes THEN "legacy_devices" ELSE "done"
  /\ UNCHANGED <<legacyRest, legacyVars, treeVars, last_sync_file, idx, exc,
                 devices, selected_device, attempted, pbar_n, targets,
                 ts_writes, broadcast_calls, broadcast_failed>>

\* adb_push_files: get_connected_devices() and select_device(devices);
\* choice is the number typed when several devices are listed, 0 when the
\* prompt is interrupted.
LegacySelectDevice(o, devs, choice) ==
  /\ pc = "legacy_devices"
  /\ choice \in 0..Len(devs)
  /\ IF o.kind = "not_started"
     THEN /\ LegacyCrash(o)
          /\ UNCHANGED <<devices, selected_device, idx>>
     ELSE /\ devices' = devs
          /\ IF devs = <<>>
             THEN /\ pc' = "done"
                  /\ UNCHANGED <<selected_device, idx, exc>>
             ELSE IF Len(devs) = 1
             THEN /\ selected_device' = devs[1]
                  /\ pc' = "legacy_mkdir" /\ idx' = 1
                  /\ UNCHANGED exc
             ELSE IF choice = 0
             THEN /\ pc' = "done"
                  /\ exc' = NewExc("KeyboardInterrupt", "")
                  /\ UNCHANGED <<selected_device, idx>>
             ELSE /\ selected_device' = devs[choice]
                  /\ pc' = "legacy_mkdir" /\ idx' = 1
                  /\ UNCHANGED exc
  /\ UNCHANGED <<legacyRest, legacyVars, treeVars, last_sync_file, attempted,
                 pbar_n, targets, ts_writes, broadcast_calls,
                 broadcast_failed>>

\* adb shell mkdir -p remote_dir; its result is not looked at.
LegacyMkdir(o) ==
  /\ pc = "legacy_mkdir"
  /\ IF o.kind = "not_started"
     THEN LegacyCrash(o) /\ UNCHANGED targets
     ELSE /\ pc' = "legacy_push"
          /\ targets' = targets \cup
               {[local |-> local_file(files_for_transfer[idx]),
                 remote |-> legacy_android_target(files_for_transfer[idx])]}
          /\ UNCHANGED exc
  /\ UNCHANGED <<legacyRest, legacyVars, treeVars, last_sync_file, idx,
                 devices, selected_device, attempted, pbar_n, ts_writes,
                 broadcast_calls, broadcast_failed>>

\* adb push; progress_bar.update(1); a non-zero exit clears
\* all_files_pushed and no broadcast is sent for the file.
LegacyPush(o) ==
  /\ pc = "legacy_push"
  /\ LET f == files_for_transfer[idx]
     IN IF o.kind = "not_started"
        THEN /\ LegacyCrash(o)
             /\ UNCHANGED <<idx, attempted, pbar_n, all_files_pushed,
                            push_failed>>
        ELSE /\ attempted' = attempted \cup {f}
             /\ pbar_n' = pbar_n + 1
             /\ all_files_pushed' =
                  legacy_all_pushed(all_files_pushed, o.returncode)
             /\ IF o.returncode = 0
                THEN /\ pc' = "legacy_broadcast"
                     /\ UNCHANGED <<idx, push_failed>>
                ELSE /\ push_failed' = push_failed \cup {f}
                     /\ LegacyNextFile
             /\ UNCHANGED exc
  /\ UNCHANGED <<legacyRest, deleted, delete_asked, treeVars, last_sync_file,
                 devices, selected_device, targets, ts_writes,
                 broadcast_calls, broadcast_failed>>

\* am broadcast for the one file; its exit code is only printed.
LegacyBroadcast(o) ==
  /\ pc = "legacy_broadcast"
  /\ IF o.kind = "not_started"
     THEN /\ LegacyCrash(o)
          /\ UNCHANGED <<idx, broadcast_calls, broadcast_failed>>
     ELSE /\ broadcast_calls' = broadcast_calls + 1
          /\ broadcast_failed' =
               IF o.returncode = 0 THEN broadcast_failed
               ELSE broadcast_failed \cup {failure_kind(o)}
          /\ LegacyNextFile
          /\ UNCHANGED exc
  /\ UNCHANGED <<legacyRest, legacyVars, treeVars, last_sync_file, devices,
                 selected_device, attempted, pbar_n, targets, ts_writes>>

\* After the loop: if all_files_pushed, update_last_sync_timestamp() and
\* the question whether to delete; else "Some files failed to push".
LegacyFinish ==
  /\ pc = "legacy_finish"
  /\ IF all_files_pushed
     THEN /\ last_sync_file' = update_last_sync_timestamp(last_sync_file, clock)
          /\ ts_writes' = ts_writes + 1
          /\ delete_asked' = TRUE
          /\ pc' = "legacy_delete_prompt"
     ELSE /\ pc' = "done"
          /\ UNCHANGED <<last_sync_file, ts_writes, delete_asked>>
  /\ UNCHANGED <<legacyRest, all_files_pushed, push_failed, deleted, treeVars,
                 idx, exc, devices, selected_device, attempted, pbar_n,
                 targets, broadcast_calls, broadcast_failed>>

\* input(...).strip().lower() != 'n'
delete_confirmed(t) == lower(strip(t)).chars # "n"

\* The answer to "Files will be deleted ...": anything but n runs
\* delete_files_in_folder(source_dir), which removes every file under it.
LegacyDeletePrompt(t) ==
  /\ pc = "legacy_delete_prompt"
  /\ pc' = "done"
  /\ IF t = Interrupt
     THEN /\ exc' = NewExc("KeyboardInterrupt", "")
          /\ UNCHANGED <<mtime, fsize, deleted>>
     ELSE /\ IF delete_confirmed(t)
             THEN /\ deleted' = DOMAIN fsize
                  /\ mtime' = <<>>
                  /\ fsize' = <<>>
             ELSE UNCHANGED <<mtime, fsize, deleted>>
          /\ UNCHANGED exc
  /\ UNCHANGED <<legacyRest, all_files_pushed, push_failed, delete_asked,
                 last_sync_file, idx, devices, selected_device, attempted,
                 pbar_n, targets, ts_writes, broadcast_calls,
                 broadcast_failed>>

\* _get_validated_input: one input() of its loop and what follows it,
\* until the next input() or the return.
ReadInput(t) ==
  /\ answer = Asking
  /\ attempts < config.max_attempts
  /\ inputs' = Append(inputs, t)
  /\ LET r == validated_input(config, attempts, t)
     IN /\ answer' = r.answer
        /\ attempts' = r.attempts
  /\ UNCHANGED <<clock, treeVars, last_sync_file, ctlVars, scanVars,
                 deviceVars, batch_size, bi, runHist, attempted, confirmed,
                 fileHist, pushVars, broadcastHist, prevVars, legacyVars,
                 config>>

\* The process ends; of its memory nothing is left.  What the next run
\* finds is the source tree and last_sync_time.txt.
ProcessExit ==
  /\ pc = "done"
  /\ pc' = "idle"
  /\ prev_exhausted' = exhausted
  /\ prev_ts' = ts_before
  /\ modified' = {}
  /\ sync_all' = TRUE
  /\ last_sync_timestamp' = NoTimestamp
  /\ sync_data' = <<0, 0>>
  /\ files_for_transfer' = <<>>
  /\ devices' = <<>>
  /\ selected_device' = NoDevice
  /\ model' = Unset
  /\ manufacturer' = Unset
  /\ idx' = 0
  /\ attempt' = 0
  /\ transferred_files' = <<>>
  /\ bi' = 0
  /\ pf_result' = "none"
  /\ es_result' = "none"
  /\ run_report' = "none"
  /\ exc' = NoExc
  /\ run_start' = 0
  /\ ts_before' = NoTimestamp
  /\ scan_in' = NoScan
  /\ listing' = <<>>
  /\ asked' = <<>>
  /\ attempted' = {}
  /\ confirmed' = {}
  /\ exhausted' = {}
  /\ cur' = 0
  /\ mkdirs' = 0
  /\ cur_marker' = FALSE
  /\ sleeps' = 0
  /\ ok_attempt' = 0
  /\ file_finished' = FALSE
  /\ broadcast_calls' = 0
  /\ broadcast_paths' = {}
  /\ broadcast_failed' = {}
  /\ broadcast_args' = <<>>
  /\ pbar_n' = 0
  /\ sent_to' = {}
  /\ targets' = {}
  /\ mkdir_ok' = FALSE
  /\ ts_writes' = 0
  /\ first_remote' = remote
  /\ UNCHANGED <<legacyVars, confirmVars, clock, treeVars, last_sync_file, batch_size, remote>>

\* One device at most is attached, and the tree holds no HEIC file.
Next ==
  \/ Tick
  \/ \E f \in Files : Touch(f)
  \/ SettingsCancelled
  \/ \E all, convert \in BOOLEAN :
       \E conv \in [HeicFiles -> ConvertOutcomes] :
         RunPrepare(all, convert, conv, Ascending(DOMAIN fsize))
  \/ \E yes \in BOOLEAN : ConfirmStart(yes)
  \/ \E o \in ShellOutcomes : VerifyAdbInstallation(o)
  \/ \E o \in ShellOutcomes : \E lines \in SingleListings :
       GetConnectedDevices(o, lines)
  \/ \E o \in ShellOutcomes : FetchModel(o)
  \/ \E o \in ShellOutcomes : FetchManufacturer(o)
  \/ \E o \in ShellOutcomes : Mkdir(o)
  \/ \E o \in PushOutcomes : Push(o)
  \/ Sleep
  \/ \E o \in ShellOutcomes : SendReindexBroadcast(o)
  \/ UpdateLastSync
  \/ ProcessExit

Spec == Init /\ [][Next]_vars


(* ------------- _batch_reindex_broadcasts on its own -------------------- *)
\* push_files has pushed n files, all confirmed, and calls
\* _batch_reindex_broadcasts(transferred_files, batch_size).
InitNotify ==
  /\ clock = 1
  /\ mtime = [f \in Files |-> 0]
  /\ fsize = [f \in Files |-> 1]
  /\ source_dir = <<dir_name(0)>>
  /\ rel_path = FlatLayout
  /\ last_sync_file \in {NoTimestamp, 0}
  /\ batch_size \in 1..MaxBatch \cup {default_batch_size}
  /\ \E n \in 1..MaxPaths :
       /\ files_for_transfer = [k \in 1..n |-> k]
       /\ transferred_files = [k \in 1..n |-> android_target(k)]
       /\ sync_data = <<n, n>>
       /\ idx = n
       /\ attempted = 1..n
       /\ confirmed = 1..n
       /\ cur = n
  /\ pc = "broadcast"
  /\ sync_all = TRUE
  /\ last_sync_timestamp = NoTimestamp
  /\ devices = <<>>
  /\ selected_device = FirstDevice
  /\ model = "stdout"
  /\ manufacturer = "stdout"
  /\ attempt = 0
  /\ bi = 0
  /\ pf_result = "none"
  /\ es_result = "none"
  /\ run_report = "none"
  /\ exc = NoExc
  /\ run_start = 1
  /\ ts_before = last_sync_file
  /\ scan_in = NoScan
  /\ listing = <<>>
  /\ asked = <<>>
  /\ exhausted = {}
  /\ mkdirs = 1
  /\ sleeps = 0
  /\ ok_attempt = 1
  /\ cur_marker = TRUE
  /\ file_finished = TRUE
  /\ broadcast_calls = 0
  /\ broadcast_paths = {}
  /\ broadcast_failed = {}
  /\ broadcast_args = <<>>
  /\ pbar_n = Len(files_for_transfer)
  /\ sent_to = {FirstDevice}
  /\ targets =
       {[local |-> local_file(k), remote |-> android_target(k)] :
          k \in 1..Len(files_for_transfer)}
  /\ mkdir_ok = FALSE
  /\ ts_writes = 0
  /\ remote = Unwatched
  /\ first_remote = Unwatched
  /\ prev_exhausted = {}
  /\ prev_ts = NoTimestamp
  /\ modified = {}
  /\ NoLegacy
  /\ NoPrompt

NextNotify ==
  \/ \E o \in ShellOutcomes : SendReindexBroadcast(o)
  \/ Tick
  \/ UpdateLastSync

SpecNotify == InitNotify /\ [][NextNotify]_vars

(* --------------------------- the scan on its own ---------------------- *)
\* Any tree of .heic files and their .jpg siblings, of any of the sizes that
\* matter, and a persisted timestamp before, at or after the files' times.
InitScan ==
  /\ clock = 1
  /\ \E D \in SUBSET ((1..MaxHeic) \cup HeicFiles) :
       /\ mtime \in [D -> 0..1]
       /\ fsize \in [D -> ScanSizes]
  /\ last_sync_file \in {NoTimestamp, 0, 1}
  /\ batch_size = default_batch_size
  /\ NoRun
  /\ FlatUnwatched

NextScan ==
  \/ \E all, convert \in BOOLEAN, conv \in [HeicFiles -> ConvertOutcomes],
        paths \in scan_directory :
       RunPrepare(all, convert, conv, paths)
  \/ \E all, convert \in BOOLEAN, conv \in [HeicFiles -> ConvertOutcomes],
        paths \in scan_directory :
       LegacyCalculateMetadata(all, convert, conv, paths)

SpecScan == InitScan /\ [][NextScan]_vars

(* --------------------- device selection in full ----------------------- *)
\* Up to MaxDevices devices are attached; the tree holds one file to sync.
InitDevice ==
  /\ clock = 1
  /\ mtime = [f \in Files |-> 1]
  /\ fsize = [f \in Files |-> IF f = 1 THEN 1 ELSE 0]
  /\ last_sync_file \in {NoTimestamp, 0}
  /\ batch_size = default_batch_size
  /\ NoRun
  /\ FlatUnwatched

NextDevice ==
  \/ SettingsCancelled
  \/ \E all, convert \in BOOLEAN :
       \E conv \in [HeicFiles -> ConvertOutcomes] :
         RunPrepare(all, convert, conv, Ascending(DOMAIN fsize))
  \/ \E yes \in BOOLEAN : ConfirmStart(yes)
  \/ \E o \in ShellOutcomes : VerifyAdbInstallation(o)
  \/ \E o \in ShellOutcomes : \E lines \in Listings :
       GetConnectedDevices(o, lines)
  \/ \E ans \in Answers : PromptForDeviceChoice(ans)
  \/ \E o \in ShellOutcomes : FetchModel(o)
  \/ \E o \in ShellOutcomes : FetchManufacturer(o)
  \/ \E o \in ShellOutcomes : Mkdir(o)
  \/ \E o \in PushOutcomes : Push(o)
  \/ Sleep
  \/ \E o \in ShellOutcomes : SendReindexBroadcast(o)
  \/ UpdateLastSync
  \/ ProcessExit

SpecDevice == InitDevice /\ [][NextDevice]_vars

(* ------------- the tree's layout and the device's storage ------------- *)
\* The files lie in source_dir or in a subdirectory of it, source_dir is
\* given plainly or through "..", the files differ in size, and the
\* device's storage is watched, from empty on.  Nothing goes wrong before
\* the first file is pushed; mkdir and push end as the bridge chooses.
Ok == Completed(0, FALSE)
InitPaths ==
  /\ clock = 1
  /\ mtime = [f \in Files |-> 0]
  /\ fsize = [f \in Files |-> f]
  /\ source_dir \in SourceDirs
  /\ rel_path \in Layouts
  /\ remote = EmptyStorage
  /\ first_remote = EmptyStorage
  /\ last_sync_file = NoTimestamp
  /\ batch_size = default_batch_size
  /\ NoRun

NextPaths ==
  \/ \E conv \in [HeicFiles -> ConvertOutcomes] :
       RunPrepare(TRUE, FALSE, conv, Ascending(DOMAIN fsize))
  \/ ConfirmStart(TRUE)
  \/ VerifyAdbInstallation(Ok)
  \/ GetConnectedDevices(Ok, <<<<FirstDevice, "device">>>>)
  \/ FetchModel(Ok)
  \/ FetchManufacturer(Ok)
  \/ \E o \in {Completed(c, FALSE) : c \in {0, 1}} : Mkdir(o)
  \/ \E o \in {Completed(c, m) : c \in {0, 1}, m \in BOOLEAN} : Push(o)
  \/ Sleep
  \/ SendReindexBroadcast(Ok)
  \/ UpdateLastSync
  \/ ProcessExit

SpecPaths == InitPaths /\ [][NextPaths]_vars

(* ------------------------ one prompt on its own ----------------------- *)
\* get_user_confirmation is called with any configuration of a y/n prompt;
\* nothing else happens.
InitConfirm ==
  /\ clock = 1
  /\ mtime = [f \in Files |-> 0]
  /\ fsize = [f \in Files |-> 1]
  /\ last_sync_file = NoTimestamp
  /\ batch_size = default_batch_size
  /\ FlatUnwatched
  /\ Idle
  /\ config \in Configs
  /\ attempts = 0
  /\ answer = Asking
  /\ inputs = <<>>

NextConfirm == \E t \in Texts \cup {Interrupt} : ReadInput(t)

SpecConfirm == InitConfirm /\ [][NextConfirm]_vars

\* input() returns what was typed or raises at the end of the input: the
\* step of the prompt is weakly fair.
SpecConfirmLive == SpecConfirm /\ WF_vars(NextConfirm)

(* ------------------------- the legacy flow ---------------------------- *)
\* The lists get_connected_devices can return.
LegacyDeviceLists ==
  {<<>>, <<FirstDevice>>}
    \cup {<<d, e>> : d \in {FirstDevice}, e \in Devices \ {FirstDevice}}

NextLegacy ==
  \/ \E all, convert \in BOOLEAN, conv \in [HeicFiles -> ConvertOutcomes] :
       LegacyCalculateMetadata(all, convert, conv, Ascending(DOMAIN fsize))
  \/ \E yes \in BOOLEAN : LegacyConfirmStart(yes)
  \/ \E o \in LegacyOutcomes, devs \in LegacyDeviceLists,
        choice \in 0..MaxDevices :
       LegacySelectDevice(o, devs, choice)
  \/ \E o \in LegacyOutcomes : LegacyMkdir(o)
  \/ \E o \in LegacyOutcomes : LegacyPush(o)
  \/ \E o \in LegacyOutcomes : LegacyBroadcast(o)
  \/ LegacyFinish
  \/ \E t \in Texts \cup {Interrupt} : LegacyDeletePrompt(t)

SpecLegacy == Init /\ [][NextLegacy]_vars

(* --------------------------- one run, to its end ---------------------- *)
\* One run from its start, or from the first broadcast of a longer list,
\* with every outcome of every command.  One device at most is attached,
\* so select_device asks nothing.

\* The steps of push_files, from select_device to the return.
PushFilesStep ==
  \/ \E o \in ShellOutcomes : \E lines \in SingleListings :
       GetConnectedDevices(o, lines)
  \/ \E o \in ShellOutcomes : FetchModel(o)
  \/ \E o \in ShellOutcomes : FetchManufacturer(o)
  \/ \E o \in ShellOutcomes : Mkdir(o)
  \/ \E o \in PushOutcomes : Push(o)
  \/ Sleep
  \/ \E o \in ShellOutcomes : SendReindexBroadcast(o)
  \/ UpdateLastSync

NextRun ==
  \/ SettingsCancelled
  \/ \E all, convert \in BOOLEAN :
       \E conv \in [HeicFiles -> ConvertOutcomes] :
         RunPrepare(all, convert, conv, Ascending(DOMAIN fsize))
  \/ \E yes \in BOOLEAN : ConfirmStart(yes)
  \/ \E o \in ShellOutcomes : VerifyAdbInstallation(o)
  \/ PushFilesStep

\* A subprocess.run with a timeout returns or raises, and the interpreter
\* runs the next statement of push_files: its steps are weakly fair.
SpecRun ==
  (Init \/ InitNotify) /\ [][NextRun]_vars /\ WF_vars(PushFilesStep)

(* ------------------------------ claims -------------------------------- *)
PushFilesEnded == pc = "done" /\ pf_result # "none"
PushFilesReturned == pc = "done" /\ pf_result \in {"True", "False"}
Candidates == Range(files_for_transfer)
CeilDiv(n, b) == (n + b - 1) \div b
Count(x, s) == Cardinality({k \in 1..Len(s) : s[k] = x})

\* C1: when a file was not confirmed after its retries, the persisted
\* last-sync timestamp keeps the value it had before the run.
C1_FailureLeavesTimestamp ==
  exhausted # {} => last_sync_file = ts_before

\* C2: a file that failed after its retries in a run, was newer than the
\* timestamp persisted before that run (or none was persisted) and was not
\* rewritten since, is a candidate of the incremental run that follows.
C2_FailedFileEligibleAgain ==
  (pc = "confirm" \/ (pc = "done" /\ run_report = "no_new_files")) /\ ~sync_all
    => \A f \in prev_exhausted \ modified :
         should_sync_file(FALSE, prev_ts, mtime[f]) => f \in Candidates

\* C3: when push_files returns from a non-empty run in which every candidate
\* was confirmed, the persisted timestamp is set and is at least the clock
\* value at which the run started.
C3_AllConfirmedCommits ==
  (PushFilesReturned /\ files_for_transfer # <<>>
     /\ Candidates \subseteq confirmed)
    => (last_sync_file # NoTimestamp /\ last_sync_file >= run_start)

C3_Witness ==
  /\ PushFilesReturned
  /\ Len(files_for_transfer) >= 2
  /\ Candidates \subseteq confirmed
  /\ last_sync_file > run_start

\* C4: once push_files has ended after starting on the candidate list, every
\* file of the list has been attempted, whatever failed for the files before
\* it.
C4_EveryFileAttempted ==
  PushFilesEnded /\ attempted # {} => attempted = Candidates

\* C5: _push_file never begins a 4th attempt, begins none after a confirmed
\* success, gives up only after 3 attempts, and a file's remote path is in
\* transferred_files once if one of its attempts was confirmed, else not at all.
C5_AttemptsUntilSuccessOrThree ==
  /\ mkdirs <= 3
  /\ ok_attempt \in 0..3
  /\ ok_attempt # 0 => mkdirs = ok_attempt /\ file_finished
  /\ file_finished /\ ok_attempt = 0 => mkdirs = 3
  /\ \A f \in Candidates :
       Count(android_target(f), transferred_files)
         = IF f \in confirmed THEN 1 ELSE 0

C5_Witness ==
  /\ file_finished
  /\ ok_attempt = 3
  /\ mkdirs = 3
  /\ Count(android_target(cur), transferred_files) = 1
  /\ exhausted # {}

\* C6: one sleep lies between any two consecutive attempts on a file and
\* none follows its last attempt: with n attempts begun there were n - 1
\* sleeps, or n when the next attempt is about to begin.
C6_OneSleepBetweenAttempts ==
  cur # 0 =>
    IF pc = "mkdir" /\ ~file_finished /\ attempt = mkdirs
    THEN sleeps = mkdirs
    ELSE sleeps = mkdirs - 1

\* C7: when a file was not confirmed after its retries, push_files does not
\* return True, execute_sync does not return True and run() does not report
\* "completed successfully".
C7_FailureIsReported ==
  pc = "done" /\ exhausted # {}
    => /\ pf_result # "True"
       /\ es_result # "True"
       /\ run_report # "completed_successfully"

\* C8: a file's push is judged successful exactly when a push of it printed
\* the success marker, whatever the exit code.
C8_MarkerDecidesSuccess ==
  cur # 0 => (cur_marker <=> android_target(cur) \in Range(transferred_files))

\* C9: every remote path carried by a broadcast is the remote path of a file
\* whose push was confirmed.
C9_BroadcastOnlyConfirmed ==
  broadcast_paths \subseteq {android_target(f) : f \in confirmed}

C9_Witness ==
  /\ broadcast_calls > 0
  /\ broadcast_paths # {}
  /\ exhausted # {}

\* C10: once push_files has ended, ceil(N / batch_size) broadcasts were
\* issued for its N succeeded paths, whatever happened to each batch.
C10_CeilBatches ==
  PushFilesEnded /\ transferred_files # <<>> /\ attempted = Candidates
    => broadcast_calls = CeilDiv(Len(transferred_files), batch_size)

\* C11: when every candidate was confirmed pushed and a broadcast exited
\* non-zero or timed out, push_files returns True and the timestamp is
\* written.
C11_NotificationFailureNotFatal ==
  (PushFilesEnded /\ files_for_transfer # <<>>
     /\ Candidates \subseteq confirmed
     /\ broadcast_failed # {} /\ broadcast_failed \subseteq {"exit", "timeout"})
    => (pf_result = "True"
        /\ last_sync_file # NoTimestamp /\ last_sync_file >= run_start)

(* ---- the scan: what it started from against what it returned ---- *)
Scanned == scan_in.flow # "none"
heic_sibling(p) == p + MaxFiles
\* The scan converts p, or a conversion writes over p.
Converted(p) ==
  \/ p \in DOMAIN scan_in.conv
  \/ heic_sibling(p) \in DOMAIN scan_in.conv /\ scan_in.conv[heic_sibling(p)].ok
Newer(p) ==
  last_sync_timestamp = NoTimestamp \/ scan_in.mtime[p] > last_sync_timestamp
RECURSIVE ListedBytes(_)
ListedBytes(S) ==
  IF S = {} THEN 0
  ELSE LET p == CHOOSE q \in S : TRUE IN fsize[p] + ListedBytes(S \ {p})

C13_NoZeroByteCandidate ==
  Scanned =>
    /\ \A p \in Candidates : p \in DOMAIN fsize /\ fsize[p] > 0
    /\ \A p \in DOMAIN scan_in.fsize :
         scan_in.fsize[p] = 0 /\ ~Converted(p) => p \notin Candidates
    /\ sync_data[1] = Len(files_for_transfer)

C13_Witness ==
  /\ Scanned /\ sync_all
  /\ Candidates # {}
  /\ \E p \in DOMAIN scan_in.fsize :
       scan_in.fsize[p] = 0 /\ ~Converted(p) /\ p \in DOMAIN fsize

\* C14: calculate_metadata returns a count equal to the length of the list,
\* a total equal to the sum of the sizes of the files listed, and a list
\* that names no file twice.
C14_MetadataConsistent ==
  Scanned =>
    /\ sync_data[1] = Len(files_for_transfer)
    /\ Cardinality(Candidates) = Len(files_for_transfer)
    /\ sync_data[2] = ListedBytes(Candidates)

(* ---- device selection ---- *)
\* The ids of the lines in READY state, in listing order.
RECURSIVE ReadyFrom(_, _)
ReadyFrom(lines, i) ==
  IF i > Len(lines) THEN <<>>
  ELSE IF Len(lines[i]) >= 2 /\ lines[i][2] = "device"
       THEN <<lines[i][1]>> \o ReadyFrom(lines, i + 1)
       ELSE ReadyFrom(lines, i + 1)
SelectFailedWith(text) ==
  pc = "done" /\ exc.msg = <<"Failed to select device", text>>
ValidAnswer(ans, n) == ans.kind = "int" /\ ans.value \in 1..n

\* C15: whatever states the lines of a listing carry, the devices kept are
\* the READY ones in listing order, the listing does not fail, and
\* select_device raises the no-devices error exactly when none is READY.
C15_ReadyDevicesOnly ==
  /\ pc \in {"prompt", "getprop_model"}
       => devices = ReadyFrom(listing, 1) /\ devices # <<>>
  /\ SelectFailedWith("No devices connected") => ReadyFrom(listing, 1) = <<>>
  /\ pc = "done" /\ exc.type # "none" /\ exc.kind = "none" /\ asked = <<>>
       => SelectFailedWith("No devices connected")

\* C16: a single READY device is selected without a question; of several,
\* the answer i in 1..N selects the i-th listed with no error; any other
\* answer ends selection with "Device selection cancelled" and no device
\* selected.
C16_TargetResolution ==
  /\ pc = "getprop_model" /\ Len(devices) = 1
       => asked = <<>> /\ selected_device = devices[1]
  /\ pc = "getprop_model" /\ Len(devices) > 1
       => /\ Len(asked) = 1
          /\ ValidAnswer(asked[1], Len(devices))
          /\ selected_device = devices[asked[1].value]
  /\ asked # <<>> /\ devices # <<>> /\ ~ValidAnswer(asked[1], Len(devices))
       => /\ SelectFailedWith("Device selection cancelled")
          /\ selected_device = NoDevice
  /\ SelectFailedWith("Device selection cancelled")
       => asked # <<>> /\ ~ValidAnswer(asked[1], Len(devices))
  /\ Len(asked) <= 1

C16_Witness ==
  /\ pc = "getprop_model"
  /\ Len(devices) = 2
  /\ asked = <<[kind |-> "int", value |-> 2]>>
  /\ selected_device = devices[2]
  /\ devices[2] # devices[1]

\* C17: a getprop call that times out does not make select_device fail:
\* once a device is selected, no timeout ends the run with "Failed to
\* select device".
C17_EnrichmentBestEffort ==
  selected_device # NoDevice /\ exc.kind = "timeout"
    => exc.msg[1] # "Failed to select device"

\* C18: an adb that cannot be started and an adb that outlives the timeout
\* both leave the runner as DeviceConnectionError, with different messages.
C18_BridgeErrorsTyped ==
  /\ exc.kind = "timeout"
       => /\ exc.bridge = "DeviceConnectionError"
          /\ "ADB command timed out" \in Range(exc.msg)
  /\ exc.kind = "not_started"
       => /\ exc.bridge = "DeviceConnectionError"
          /\ "ADB command timed out" \notin Range(exc.msg)

C20_EmptyCandidatesNoOp ==
  /\ pc # "idle" /\ run_report # "settings_cancelled"
       /\ files_for_transfer = <<>>
       => pc = "done" /\ run_report = "no_new_files"
  /\ pc = "done" /\ run_report = "no_new_files"
       => /\ files_for_transfer = <<>>
          /\ selected_device = NoDevice
          /\ attempted = {} /\ mkdirs = 0 /\ broadcast_calls = 0
          /\ last_sync_file = ts_before

C20_Witness ==
  /\ pc = "done" /\ run_report = "no_new_files"
  /\ ~sync_all
  /\ last_sync_file # NoTimestamp
  /\ DOMAIN fsize # {}

(* ---- what a run leaves on the device ---- *)
\* The storage r holds f's bytes at f's remote path, in an existing
\* directory.
StoredAsLocal(r, f) ==
  /\ android_target(f) \in DOMAIN r.files
  /\ r.files[android_target(f)] = content(f)
  /\ parent(android_target(f)) \in r.dirs

\* C21: push_files run over a list whose files an earlier run has already
\* put on the device, every file being confirmed again, leaves the device's
\* storage exactly as the earlier run left it: no path is added, removed or
\* given other content.
C21_PushAllIdempotent ==
  (pc = "done" /\ pf_result = "True" /\ Candidates \subseteq confirmed
     /\ \A f \in Candidates : StoredAsLocal(first_remote, f))
    => remote = first_remote

C21_Witness ==
  /\ pc = "done" /\ pf_result = "True"
  /\ Len(files_for_transfer) = 2
  /\ Candidates \subseteq confirmed
  /\ \A f \in Candidates : StoredAsLocal(first_remote, f)
  /\ Cardinality(DOMAIN remote.files) = 2
  /\ Len(rel_path[1]) # Len(rel_path[2])
  /\ rel_path[1][Len(rel_path[1])] = rel_path[2][Len(rel_path[2])]

\* C22: the progress reported never exceeds the sizes of the files whose
\* push was confirmed, summed, and within a run it never decreases; an
\* attempt that fails and a file that is given up add nothing.
C22_ProgressBoundedMonotonic ==
  /\ [](pbar_n <= ListedBytes(confirmed))
  /\ [](confirmed = {} => pbar_n = 0)
  /\ [][pbar_n' >= pbar_n \/ pc' = "idle"]_vars
  /\ [][confirmed' = confirmed /\ pc' # "idle" => pbar_n' = pbar_n]_vars

C22_Witness ==
  /\ pc = "done"
  /\ exhausted = {1}
  /\ confirmed = {2}
  /\ fsize[1] # fsize[2]
  /\ pbar_n = fsize[2]

(* ---- remote paths ---- *)
RemotePaths == {t.remote : t \in targets}

\* C23: the remote path of every file _push_file is called for is
\* target_dir followed by the file's path relative to source_dir, which
\* has no ".." component; it lies under target_dir, differs from the remote
\* path of every other local file, and is the path whose parent mkdir
\* creates and that the broadcasts name; a run puts nothing elsewhere on
\* the device.  main.py's adb_push_files computes the same remote path.
C23_RemotePathUnderTarget ==
  /\ \A t \in targets :
       /\ \E f \in Candidates :
            /\ t.local = local_file(f)
            /\ t.remote = target_dir \o rel_path[f]
            /\ legacy_android_target(f) = t.remote
       /\ IsPrefix(target_dir, t.remote)
       /\ Len(t.remote) > Len(target_dir)
       /\ dotdot \notin Range(SubSeq(t.remote, Len(target_dir) + 1,
                                     Len(t.remote)))
  /\ \A t, u \in targets : t.local # u.local => t.remote # u.remote
  /\ DOMAIN remote.files \ DOMAIN first_remote.files \subseteq RemotePaths
  /\ remote.dirs \ first_remote.dirs
       \subseteq UNION {Ancestors(parent(p)) : p \in RemotePaths}
  /\ broadcast_paths \subseteq RemotePaths

C23_Witness ==
  /\ dotdot \in Range(source_dir)
  /\ Cardinality(targets) = 2
  /\ Cardinality(broadcast_paths) = 2
  /\ \E t, u \in targets :
       /\ Len(t.remote) < Len(u.remote)
       /\ t.remote[Len(t.remote)] = u.remote[Len(u.remote)]
       /\ parent(u.remote) \in remote.dirs

(* ---- the device of a run ---- *)
\* C24: no mkdir, push or broadcast is sent while no device is selected,
\* every one of a run is addressed to the selected device, and once a
\* device is selected its id stays what it is until the process ends,
\* whatever is attached to it as model and manufacturer.
C24_OneDevicePerRun ==
  /\ [](sent_to \subseteq {selected_device} \ {NoDevice})
  /\ [](\A k \in DOMAIN broadcast_args :
          broadcast_args[k].id = selected_device /\ selected_device # NoDevice)
  /\ [](attempted # {} \/ broadcast_calls > 0
          => sent_to \cup {broadcast_args[k].id : k \in DOMAIN broadcast_args}
               = {selected_device})
  /\ [][selected_device # NoDevice /\ pc' # "idle"
         => selected_device' = selected_device]_vars

C24_Witness ==
  /\ pc = "done" /\ pf_result = "True"
  /\ selected_device # NoDevice /\ selected_device # FirstDevice
  /\ model # Unset /\ manufacturer # Unset
  /\ sent_to = {selected_device}
  /\ Len(broadcast_args) = 1

(* ---- the order of an attempt ---- *)
\* C25: the push of an attempt is the next command only when the mkdir of
\* the same attempt of the same file has been issued and exited 0; a
\* successful mkdir is followed by the push, a push uses up its mkdir, and
\* no file is on the device whose directory no mkdir has made.
C25_MkdirBeforePush ==
  /\ [](pc = "push"
          => /\ mkdir_ok
             /\ mkdirs = attempt + 1
             /\ cur = files_for_transfer[idx]
             /\ parent(android_target(cur)) \in remote.dirs)
  /\ [](mkdir_ok => pc = "push")
  /\ [][pc = "push" => ~mkdir_ok']_vars
  /\ [](\A p \in DOMAIN remote.files : parent(p) \in remote.dirs)

C25_Witness ==
  /\ pc = "push" /\ mkdir_ok
  /\ attempt = 2 /\ mkdirs = 3
  /\ sleeps = 1
  /\ idx = 2
  /\ Len(android_target(cur)) > Len(target_dir) + 1
  /\ parent(android_target(cur)) \in remote.dirs \ first_remote.dirs

(* ---- the write of the sync state ---- *)
\* C26: last_sync_time.txt is written at most once in a run, by the last
\* step of push_files: when it is written every candidate has had its last
\* attempt and every batch of notifications has been sent, and nothing but
\* that write changes the file.
C26_SingleWriteAtEnd ==
  /\ [](ts_writes <= 1)
  /\ [](ts_writes = 1
          => /\ pc = "done" /\ pf_result = "True"
             /\ attempted = Candidates /\ file_finished
             /\ idx = Len(files_for_transfer)
             /\ broadcast_calls
                  = CeilDiv(Len(transferred_files), batch_size))
  /\ [][last_sync_file' # last_sync_file
         => ts_writes = 0 /\ ts_writes' = 1 /\ pc = "commit"]_vars
  /\ [][ts_writes = 1 => pc' = "idle"]_vars

C26_Witness ==
  /\ ts_writes = 1
  /\ last_sync_file # ts_before
  /\ Len(files_for_transfer) = 2
  /\ exhausted = {1}
  /\ broadcast_failed # {}

(* ---- the batches of notifications ---- *)
\* The -d arguments of the first k broadcasts, one after the other.
RECURSIVE DataUpTo(_)
DataUpTo(k) ==
  IF k = 0 THEN <<>> ELSE DataUpTo(k - 1) \o broadcast_args[k].data

\* C27: the batches sent are consecutive slices of transferred_files in
\* push order, each path "file://"-prefixed in one -d argument, none empty,
\* every one but the last of batch_size (10) paths, one broadcast call per
\* batch; and once push_files has ended they cover every succeeded path.
C27_BatchesPartition ==
  /\ Len(broadcast_args) = broadcast_calls
  /\ LET sent == DataUpTo(Len(broadcast_args))
     IN /\ Len(sent) <= Len(transferred_files)
        /\ sent = paths_arg(SubSeq(transferred_files, 1, Len(sent)))
  /\ \A k \in DOMAIN broadcast_args :
       /\ broadcast_args[k].data # <<>>
       /\ Len(broadcast_args[k].data) <= batch_size
       /\ k < Len(broadcast_args)
            => Len(broadcast_args[k].data) = batch_size
  /\ PushFilesEnded /\ transferred_files # <<>> /\ attempted = Candidates
       => DataUpTo(Len(broadcast_args)) = paths_arg(transferred_files)

(* ---- termination ---- *)
InPushFiles ==
  pc \in {"devices", "prompt", "getprop_model", "getprop_manufacturer",
          "mkdir", "push", "sleep", "broadcast", "commit"}

\* C28: whatever the bridge commands do, push_files ends; for each file it
\* issues at most 3 mkdir commands, at most one push per attempt and so at
\* most 3, and sleeps at most twice; and it issues at most
\* ceil(N / batch_size) broadcasts for a list of N files.
C28_PushFilesTerminates ==
  /\ [](mkdirs <= 3 /\ sleeps <= 2)
  /\ [](pc = "push" => attempt < 3 /\ mkdirs = attempt + 1)
  /\ [][pc = "push" => pc' # "push"]_vars
  /\ [](broadcast_calls <= CeilDiv(Len(files_for_transfer), batch_size))
  /\ (InPushFiles ~> pc = "done")

C28_Witness ==
  /\ pc = "done" /\ pf_result = "True"
  /\ Len(files_for_transfer) = 2
  /\ mkdirs = 3 /\ sleeps = 2
  /\ exhausted # {}
  /\ broadcast_calls = 1

(* ---- nothing confirmed ---- *)
\* C29: when push_files has ended after starting on the candidate list and
\* no candidate was confirmed pushed, it has issued no broadcast, has not
\* written the last-sync timestamp, and has returned False.
C29_NothingConfirmedReturnsFalse ==
  PushFilesEnded /\ attempted # {} /\ confirmed = {}
    => /\ broadcast_calls = 0
       /\ ts_writes = 0 /\ last_sync_file = ts_before
       /\ pf_result = "False"

(* ---- oversize files ---- *)
\* C30: a scan of MediaFileProcessor, full or incremental, lists no file
\* larger than max_size (1 GiB): every listed path is a file of at most
\* max_size, a larger file that no conversion replaces is not listed
\* whatever its modification time, and the scan goes on past it: every
\* other file of an accepted size that is due and that no conversion
\* touches is listed.
C30_OversizeSkipped ==
  Scanned /\ scan_in.flow = "sync_manager" =>
    /\ \A p \in Candidates : p \in DOMAIN fsize /\ fsize[p] <= max_size
    /\ \A p \in DOMAIN scan_in.fsize :
         scan_in.fsize[p] > max_size /\ ~Converted(p) => p \notin Candidates
    /\ \A q \in DOMAIN scan_in.fsize :
         /\ scan_in.fsize[q] \in 1..max_size
         /\ ~Converted(q)
         /\ sync_all \/ Newer(q)
         => q \in Candidates

C30_Witness ==
  /\ Scanned /\ scan_in.flow = "sync_manager"
  /\ ~sync_all /\ last_sync_timestamp = 0
  /\ \E p, q \in DOMAIN scan_in.fsize :
       /\ scan_in.fsize[p] > max_size /\ ~Converted(p)
       /\ scan_in.mtime[p] = 1 /\ p \notin Candidates
       /\ p < q /\ q \in Candidates

(* ---- get_user_confirmation ---- *)
\* What was typed, read against the configuration: the line is empty, it
\* names the option k, or it is neither.
IsEmpty(t) == t # Interrupt /\ t.chars = ""
Names(t, k) ==
  /\ t # Interrupt
  /\ t.chars = k.chars
  /\ config.case_sensitive => t.upper = k.upper
IsValid(t) == \E k \in DOMAIN config.valid_options : Names(t, k)
IsInvalid(t) == t # Interrupt /\ ~IsEmpty(t) /\ ~IsValid(t)
InvalidInputs == {i \in DOMAIN inputs : IsInvalid(inputs[i])}

\* C33: get_user_confirmation ends; it has returned the value of the option
\* named by the first valid input, the default's value on the first empty
\* input, None on an interruption, and None after exactly max_attempts
\* invalid inputs; attempts counts the invalid inputs only and never
\* exceeds max_attempts.
C33_ConfirmationTerminates ==
  /\ [](/\ attempts = Cardinality(InvalidInputs)
        /\ attempts <= config.max_attempts
        /\ \A i \in DOMAIN inputs : i < Len(inputs) => IsInvalid(inputs[i])
        /\ answer = Asking =>
             /\ attempts < config.max_attempts
             /\ InvalidInputs = DOMAIN inputs
        /\ answer # Asking =>
             /\ inputs # <<>>
             /\ LET last == inputs[Len(inputs)]
                IN /\ last = Interrupt => answer = NoneValue
                   /\ IsEmpty(last) =>
                        answer = config.valid_options[config.default]
                   /\ \A k \in DOMAIN config.valid_options :
                        Names(last, k) => answer = config.valid_options[k]
                   /\ IsInvalid(last) =>
                        /\ answer = NoneValue
                        /\ attempts = config.max_attempts)
  /\ <>(answer # Asking)

C33_Witness ==
  /\ config.max_attempts = default_max_attempts
  /\ answer = NoneValue
  /\ attempts = default_max_attempts
  /\ Len(inputs) = default_max_attempts
  /\ IsInvalid(inputs[Len(inputs)])

(* ---- the device prompt ---- *)
\* C32: with several READY devices _prompt_for_device_choice asks once:
\* an answer in 1..N selects one of the listed devices, and any other
\* answer (a number out of range, an empty line, text that is no number,
\* an interruption) ends selection with DeviceConnectionError "Device
\* selection cancelled" and no device selected, without asking again.
C32_PromptAsksOnce ==
  /\ [](Len(asked) <= 1)
  /\ [](pc = "prompt" => asked = <<>> /\ Len(devices) >= 2)
  /\ [][pc = "prompt" =>
          /\ pc' # "prompt"
          /\ Len(asked') = 1
          /\ IF ValidAnswer(asked'[1], Len(devices))
             THEN /\ pc' = "getprop_model"
                  /\ selected_device' \in Range(devices)
                  /\ selected_device' \in Range(ReadyFrom(listing, 1))
             ELSE /\ pc' = "done"
                  /\ exc'.type = "DeviceConnectionError"
                  /\ exc'.msg = <<"Failed to select device",
                                  "Device selection cancelled">>
                  /\ selected_device' = NoDevice]_vars

C32_Witness ==
  /\ SelectFailedWith("Device selection cancelled")
  /\ exc.type = "DeviceConnectionError"
  /\ Len(devices) = MaxDevices
  /\ asked = <<[kind |-> "empty", value |-> 0]>>

(* ---- the legacy flow ---- *)
\* The loop of adb_push_files has gone through every candidate and no
\* command failed to start.
LegacyLoopDone ==
  /\ pc \in {"legacy_finish", "legacy_delete_prompt", "done"}
  /\ Candidates # {} /\ attempted = Candidates
  /\ idx = Len(files_for_transfer)
  /\ exc.bridge = "none"

\* C31: in the legacy flow the timestamp is written and files are deleted
\* only when the push of every candidate has exited 0; once a push has
\* failed nothing is deleted, the timestamp keeps its value and no deletion
\* is offered; and when every push exited 0 the timestamp is written and
\* the deletion offered whether or not a broadcast failed.
C31_LegacyCommitAfterAllPushed ==
  scan_in.flow = "legacy" =>
    /\ (deleted # {} \/ last_sync_file # ts_before \/ delete_asked)
         => /\ attempted = Candidates
            /\ push_failed = {}
            /\ pc \in {"legacy_delete_prompt", "done"}
    /\ push_failed # {}
         => /\ deleted = {} /\ DOMAIN fsize = DOMAIN scan_in.fsize
            /\ last_sync_file = ts_before /\ ts_writes = 0
            /\ ~delete_asked
    /\ LegacyLoopDone /\ push_failed = {} /\ pc # "legacy_finish"
         => /\ last_sync_file = run_start /\ ts_writes = 1
            /\ delete_asked
    /\ deleted # {} => delete_asked /\ last_sync_file = run_start

C31_Witness ==
  /\ scan_in.flow = "legacy"
  /\ pc = "done"
  /\ Len(files_for_transfer) = 2
  /\ push_failed = {}
  /\ broadcast_failed # {}
  /\ last_sync_file = run_start /\ last_sync_file # ts_before
  /\ deleted = Candidates

====
